---- MODULE Spec2Model ----
(***************************************************************************)
(* Model of the change-propagation rule compiler (lib/rule.js) and of the  *)
(* Kafka factory with its GuaranteedProducer (lib/kafka_factory.js), both  *)
(* held in src/unnamed/part_000.                                           *)
(*                                                                         *)
(* Strings are tuples of one-character strings, so that template strings   *)
(* such as `${topic}:${key}` are real concatenations.                      *)
(***************************************************************************)
EXTENDS Integers, Sequences, FiniteSets, TLC

VARIABLES
    \* ---- GuaranteedProducer ----
    calls,        \* one record per produce() call, in call order
    pending,      \* this._pending: report key -> resolver (the call it settles)
    ticks,        \* the process.nextTick queue
    bus,          \* messages the underlying producer accepted, not yet acked
    ready,        \* delivery reports waiting inside the library for poll()
    pollInterval, \* this._pollInterval is armed
    connected,    \* the underlying producer is connected
    logged,       \* number of 'Unknown resolver in delivery report' logs
    \* ---- one compiled match tree applied to one event ----
    mTree,        \* the match tree given to Rule._processMatch
    mEvent,       \* the message
    mPhase,       \* "off" | "new" | "compiled" | "invalid" | "tested" | "bound"
    mPred,        \* what the compiled test function returned (or Throw)
    mBind,        \* what the compiled expand function returned (or Throw)
    \* ---- a Rule and its test(message) ----
    rSpec,        \* the rule spec handed to the constructor
    rPhase,       \* "off" | "config" | "ready" | "invalid" | "tested"
    rEvent,       \* the message given to test
    rTest,        \* [threw, index]: what test(message) did
    \* ---- retry handling of one source event ----
    xConf,        \* topic, retry_limit, retry_delay, retry_factor as configured
    xRule,        \* the same three after the Rule constructor
    xPhase,       \* "off" | "config" | "invalid" | "ready" | "running" | "done"
    xLeft,        \* retries_left the next retry envelope would carry
    xResponses,   \* the statuses the target answered with, in order
    xEnvelopes,   \* retries_left of every retry envelope produced, in order
    xErrors,      \* error envelopes produced
    \* ---- the retry_on / ignore classifiers of a Rule applied to one result ----
    cSpec,        \* [retry_on, ignore] of the rule spec
    cPhase,       \* "off" | "new" | "compiled" | "invalid" | "classified"
    cResult,      \* the result handed to shouldRetry and shouldIgnoreError
    cOut,         \* [retry, ignore]: what the two classifiers returned
    \* ---- the exec stanzas of a Rule ----
    eSpec,        \* [cases, exec]: the option list (or Undefined) and the top-level exec
    ePhase,       \* "off" | "config" | "built" | "invalid" | "got"
    eRule,        \* [noop, exec]: this.noop and the exec of every option
    eGot,         \* [index, exec]: the last getExec(index) and what it returned
    \* ---- KafkaFactory ----
    kConf,        \* the kafkaConf object handed to the constructor
    kPhase,       \* "off" | "new" | "ready" | "invalid"
    kFactory,     \* [consumerConf, consumerTopicConf] of the factory
    kOut          \* [op, value]: the last getter or createConsumer and its outcome

producerVars == <<calls, pending, ticks, bus, ready, pollInterval, connected, logged>>
matchVars == <<mTree, mEvent, mPhase, mPred, mBind>>
ruleVars == <<rSpec, rPhase, rEvent, rTest>>
retryVars == <<xConf, xRule, xPhase, xLeft, xResponses, xEnvelopes, xErrors>>
classifyVars == <<cSpec, cPhase, cResult, cOut>>
execVars == <<eSpec, ePhase, eRule, eGot>>
factoryVars == <<kConf, kPhase, kFactory, kOut>>

vars == <<calls, pending, ticks, bus, ready, pollInterval, connected, logged,
          mTree, mEvent, mPhase, mPred, mBind,
          rSpec, rPhase, rEvent, rTest,
          xConf, xRule, xPhase, xLeft, xResponses, xEnvelopes, xErrors,
          cSpec, cPhase, cResult, cOut,
          eSpec, ePhase, eRule, eGot,
          kConf, kPhase, kFactory, kOut>>

nonProducerVars == <<matchVars, ruleVars, retryVars, classifyVars, execVars, factoryVars>>
nonMatchVars == <<producerVars, ruleVars, retryVars, classifyVars, execVars, factoryVars>>
nonRuleVars == <<producerVars, matchVars, retryVars, classifyVars, execVars, factoryVars>>
nonRetryVars == <<producerVars, matchVars, ruleVars, classifyVars, execVars, factoryVars>>
nonClassifyVars == <<producerVars, matchVars, ruleVars, retryVars, execVars, factoryVars>>
nonExecVars == <<producerVars, matchVars, ruleVars, retryVars, classifyVars, factoryVars>>
nonFactoryVars == <<producerVars, matchVars, ruleVars, retryVars, classifyVars, execVars>>

(***************************************************************************)
(* Bounds                                                                  *)
(***************************************************************************)
MaxCalls == 3
MaxArrayLen == 2
MaxCases == 2
MaxRetryLimit == 3
MaxUnknown == 1

Topics == { <<"a">>, <<"a", ":", "b">> }
Keys == { <<>>, <<"c">>, <<"b", ":", "c">> }
SendResults == { "true", "error", "throw" }

(***************************************************************************)
(* JavaScript values.  Every value is a record of the same shape: a type   *)
(* tag t, the characters of its string form s (for the primitives) and its *)
(* members kids, a sequence of [k, v] in insertion order (k is <<>> for    *)
(* the items of an array).  Throw stands for an evaluation that raised.    *)
(***************************************************************************)
Val(t, s, kids) == [t |-> t, s |-> s, kids |-> kids]
Undefined == Val("undef", <<"u", "n", "d", "e", "f", "i", "n", "e", "d">>, <<>>)
Null == Val("null", <<"n", "u", "l", "l">>, <<>>)
True == Val("bool", <<"t", "r", "u", "e">>, <<>>)
False == Val("bool", <<"f", "a", "l", "s", "e">>, <<>>)
Bool(b) == IF b THEN True ELSE False
Num(digits) == Val("num", digits, <<>>)
Str(chars) == Val("str", chars, <<>>)
Arr(items) == Val("arr", <<>>, [i \in 1..Len(items) |-> [k |-> <<>>, v |-> items[i]]])
Obj(kids) == Val("obj", <<>>, kids)
Field(k, v) == [k |-> k, v |-> v]
Throw == Val("throw", <<>>, <<>>)
IsThrow(v) == v.t = "throw"

\* ToBoolean
Truthy(v) ==
    CASE v.t \in {"undef", "null"} -> FALSE
      [] v.t = "bool" -> v.s = True.s
      [] v.t = "num" -> v.s # <<"0">>
      [] v.t = "str" -> v.s # <<>>
      [] OTHER -> TRUE

\* ToString, as RegExp.prototype.test and exec apply it to their argument
RECURSIVE ToStr(_)
RECURSIVE JoinItems(_, _)
JoinItems(kids, i) ==
    IF i > Len(kids) THEN <<>>
    ELSE (IF i > 1 THEN <<",">> ELSE <<>>)
         \o (IF kids[i].v.t \in {"undef", "null"} THEN <<>> ELSE ToStr(kids[i].v))
         \o JoinItems(kids, i + 1)
ToStr(v) ==
    CASE v.t = "arr" -> JoinItems(v.kids, 1)
      [] v.t = "obj" -> <<"[", "o", "b", "j", "e", "c", "t", " ", "O", "b", "j", "e", "c", "t", "]">>
      [] OTHER -> v.s

\* a && b && ... : the first falsy operand, else the last one; an operand that
\* raises is only reached when the ones before it are truthy
RECURSIVE AndChain(_)
AndChain(vs) ==
    IF vs = <<>> THEN Undefined
    ELSE IF Len(vs) = 1 \/ IsThrow(vs[1]) \/ ~Truthy(vs[1]) THEN vs[1]
    ELSE AndChain(Tail(vs))

\* name['key']: a TypeError on undefined and null
Lookup(target, key) ==
    IF IsThrow(target) \/ target.t \in {"undef", "null"} THEN Throw
    ELSE IF \E i \in 1..Len(target.kids) : target.t = "obj" /\ target.kids[i].k = key
        THEN target.kids[CHOOSE i \in 1..Len(target.kids) : target.kids[i].k = key].v
        ELSE Undefined

(***************************************************************************)
(* Regular expressions.  The match strings used here hold literal          *)
(* characters and capture groups, named or not; such a pattern finds the   *)
(* first occurrence of its literal text, and each group captures the part  *)
(* of it that the group encloses.                                          *)
(***************************************************************************)
IsFlag(c) == c \in {"g", "i", "m", "u", "y"}
IsWord(c) == c \in {"a", "b", "c", "d", "e", "f", "n", "u", "x", "y", "z", "0", "1", "_"}
MinOf(S) == CHOOSE x \in S : \A y \in S : x <= y
MaxOf(S) == CHOOSE x \in S : \A y \in S : x >= y

\* the places where a closing slash followed by at most five flags can stand
ClosingSlashes(s) ==
    {i \in 3..Len(s) : /\ s[1] = "/"
                       /\ s[i] = "/"
                       /\ Len(s) - i <= 5
                       /\ \A j \in (i + 1)..Len(s) : IsFlag(s[j])}

\* /^\/.+\/[gimuy]{0,5}$/.test(obj)
IsRegexString(s) == ClosingSlashes(s) # {}

\* the end of a (?<name> header that starts at i, or 0
NameEnd(s, i) ==
    IF i + 4 <= Len(s) /\ s[i] = "(" /\ s[i + 1] = "?" /\ s[i + 2] = "<"
    THEN LET js == {j \in (i + 4)..Len(s) :
                        s[j] = ">" /\ \A k \in (i + 3)..(j - 1) : IsWord(s[k])}
         IN  IF js = {} THEN 0 ELSE MinOf(js)
    ELSE 0

\* obj.replace(/\(\?<(\w+)>/g, ...): the capture names and the plain regex
RECURSIVE ScanNamed(_, _, _, _)
ScanNamed(s, i, names, out) ==
    IF i > Len(s) THEN [captureNames |-> names, normalRegex |-> out]
    ELSE IF NameEnd(s, i) # 0
        THEN ScanNamed(s, NameEnd(s, i) + 1,
                       Append(names, SubSeq(s, i + 3, NameEnd(s, i) - 1)), Append(out, "("))
        ELSE ScanNamed(s, i + 1, names, Append(out, s[i]))
NamedScan(s) == ScanNamed(s, 1, <<>>, <<>>)

\* (new RegExp(normalRegex + '|')).exec('').length - 1: the capture groups
NumGroups(normal) ==
    Cardinality({i \in 1..Len(normal) :
                    /\ normal[i] = "("
                    /\ ~(i < Len(normal) /\ normal[i + 1] = "?")
                    /\ ~(i > 1 /\ normal[i - 1] = "\\")})

\* 'Mixing named and unnamed capture groups are not supported'
RegexCompileThrows_Never(s) == FALSE
RegexCompileThrows(s) ==
    /\ NamedScan(s).captureNames # <<>>
    /\ Len(NamedScan(s).captureNames) # NumGroups(NamedScan(s).normalRegex)

\* the text between the slashes of the regex literal
RegexBody(normal) == SubSeq(normal, 2, MaxOf(ClosingSlashes(normal)) - 1)

IsLiteralChar(c) == c \notin {"(", ")"}
LiteralText(body) == SelectSeq(body, IsLiteralChar)

\* index of the first occurrence of the literal text in str, or 0
RegexIndex(body, str) ==
    LET lit == LiteralText(body)
        at == {i \in 1..(Len(str) - Len(lit) + 1) : SubSeq(str, i, i + Len(lit) - 1) = lit}
    IN  IF at = {} THEN 0 ELSE MinOf(at)

\* positions of the k-th "(" of body and of the ")" that closes it
GroupOpen(body, k) ==
    CHOOSE p \in 1..Len(body) :
        body[p] = "(" /\ Cardinality({q \in 1..p : body[q] = "("}) = k
GroupClose(body, k) ==
    MinOf({q \in (GroupOpen(body, k) + 1)..Len(body) :
            /\ body[q] = ")"
            /\ Cardinality({r \in GroupOpen(body, k)..q : body[r] = "("})
                 = Cardinality({r \in GroupOpen(body, k)..q : body[r] = ")"})})
LiteralsBefore(body, p) == Cardinality({q \in 1..(p - 1) : IsLiteralChar(body[q])})

\* regex.exec(str): null, or [whole match, group 1, ...]
RegexExec(normal, target) ==
    LET body == RegexBody(normal)
        str == ToStr(target)
        at == RegexIndex(body, str)
        n == Cardinality({q \in 1..Len(body) : body[q] = "("})
        group(k) == SubSeq(str, at + LiteralsBefore(body, GroupOpen(body, k)),
                                at + LiteralsBefore(body, GroupClose(body, k)) - 1)
    IN  IF IsThrow(target) THEN Throw
        ELSE IF at = 0 THEN Null
        ELSE Arr(<<Str(LiteralText(body))>> \o [k \in 1..n |-> Str(group(k))])

\* regex.test(str)
RegexTest(normal, target) ==
    IF IsThrow(target) THEN Throw
    ELSE Bool(RegexIndex(RegexBody(normal), ToStr(target)) # 0)

(***************************************************************************)
(* The match compiler.  _compileMatch assembles JavaScript source; the     *)
(* operators below give what that source evaluates to when `name` has the  *)
(* value target (Throw when evaluating `name` itself raises).              *)
(***************************************************************************)
UndefinedWord == Str(<<"u", "n", "d", "e", "f", "i", "n", "e", "d">>)

\* the match tree makes _compileMatch itself throw
RECURSIVE CompileThrows(_)
CompileThrows(obj) ==
    CASE obj.t \in {"undef", "null"} -> TRUE      \* obj.constructor of null
      [] obj.t = "str" -> obj # UndefinedWord /\ IsRegexString(obj.s) /\ RegexCompileThrows(obj.s)
      [] obj.t \in {"arr", "obj"} -> \E i \in 1..Len(obj.kids) : CompileThrows(obj.kids[i].v)
      [] OTHER -> FALSE

\* `${name} === ${obj}` and `${name} === '${obj}'`
StrictEquals(target, obj) ==
    IF IsThrow(target) THEN Throw
    ELSE Bool(target.t = obj.t /\ target.s = obj.s)

RECURSIVE TestMatch(_, _)
RECURSIVE FindItem(_, _, _)

\* name.find((item) => <test of obj>): the first item that passes, or undefined
FindItem(obj, target, i) ==
    IF i > Len(target.kids) THEN Undefined
    ELSE LET r == TestMatch(obj, target.kids[i].v) IN
         IF IsThrow(r) THEN Throw
         ELSE IF Truthy(r) THEN target.kids[i].v
         ELSE FindItem(obj, target, i + 1)

\* _compileArrayMatch: Array.isArray(name) && name.find(...) && ...
CompileArrayMatch(obj, target) ==
    IF IsThrow(target) THEN Throw
    ELSE IF target.t # "arr" THEN False
    ELSE AndChain(<<True>> \o [i \in 1..Len(obj.kids) |-> FindItem(obj.kids[i].v, target, 1)])

\* _compileMatch: the value of the returned test expression
TestMatch(obj, target) ==
    IF obj.t # "obj" THEN
        IF obj.t = "arr" THEN CompileArrayMatch(obj, target)
        ELSE IF obj = UndefinedWord THEN
            (IF IsThrow(target) THEN Throw ELSE Bool(target.t = "undef"))
        ELSE IF obj.t # "str" THEN StrictEquals(target, obj)
        ELSE IF ~IsRegexString(obj.s) THEN StrictEquals(target, obj)
        ELSE RegexTest(NamedScan(obj.s).normalRegex, target)
    ELSE AndChain([i \in 1..Len(obj.kids) |->
                    TestMatch(obj.kids[i].v, Lookup(target, obj.kids[i].k))])

\* _compileNamedRegex: the expression stored in result[fieldName]
NamedRegexBinding(str, target) ==
    LET scan == NamedScan(str)
        execRes == RegexExec(scan.normalRegex, target)
    IN  IF scan.captureNames = <<>> THEN execRes
        ELSE IF IsThrow(execRes) \/ execRes = Null THEN Throw  \* execRes[1] of null
        ELSE Obj([i \in 1..Len(scan.captureNames) |->
                    Field(scan.captureNames[i], execRes.kids[i + 1].v)])

\* whether _compileMatch stores anything under result[fieldName] for obj
Binds(obj) == obj.t # "arr" /\ obj # UndefinedWord

\* the value of the expand function's object literal, _getMatchObjCode(result)
RECURSIVE ExpandMatch(_, _)
ExpandMatch(obj, target) ==
    LET bound == SelectSeq(obj.kids, LAMBDA f : Binds(f.v))
        value(f) ==
            IF f.v.t = "obj" THEN ExpandMatch(f.v, Lookup(target, f.k))
            ELSE IF f.v.t = "str" /\ IsRegexString(f.v.s)
                THEN NamedRegexBinding(f.v.s, Lookup(target, f.k))
            ELSE f.v
        values == [i \in 1..Len(bound) |-> Field(bound[i].k, value(bound[i]))]
    IN  IF \E i \in 1..Len(values) : IsThrow(values[i].v) THEN Throw
        ELSE Obj(values)


(***************************************************************************)
(* Inputs of the match compiler: match trees and events                    *)
(***************************************************************************)
SeqsUpTo(S, n) == UNION {[1..k -> S] : k \in 0..n}

KeyM == <<"m">>
KeyN == <<"n">>
KeyU == <<"u">>
StrA == Str(<<"a">>)
StrAB == Str(<<"a", "b">>)
RegexA == Str(<<"/", "a", "/">>)
RegexGroup == Str(<<"/", "(", "a", ")", "b", "/">>)
RegexNamed == Str(<<"/", "(", "?", "<", "x", ">", "a", ")", "b", "/">>)
RegexMixed == Str(<<"/", "(", "?", "<", "x", ">", "a", ")", "(", "b", ")", "/">>)
RegexMixedLast == Str(<<"/", "(", "a", ")", "(", "?", "<", "x", ">", "b", ")", "/">>)
RegexTwoNamed == Str(<<"/", "(", "?", "<", "x", ">", "a", ")", "(", "?", "<", "y", ">", "b", ")", "/">>)

ArrayElems == {Num(<<"0">>), Num(<<"1">>), False, Str(<<>>), StrA}
Arrays == {Arr(items) : items \in SeqsUpTo(ArrayElems, MaxArrayLen)}

MatchLeaves ==
    {Num(<<"0">>), Num(<<"1">>), True, False, Str(<<>>), StrA, UndefinedWord,
     RegexA, RegexGroup, RegexNamed, RegexMixed, RegexMixedLast, RegexTwoNamed} \cup Arrays
NestedLeaves == {StrA, UndefinedWord, RegexA, RegexNamed}
MatchTrees ==
    {Obj(<<Field(KeyM, leaf)>>) : leaf \in MatchLeaves}
    \cup {Obj(<<Field(KeyN, Obj(<<Field(KeyU, leaf)>>))>>) : leaf \in NestedLeaves}
    \cup {Obj(<<Field(KeyM, StrA), Field(KeyN, Obj(<<Field(KeyU, leaf)>>))>>) : leaf \in NestedLeaves}
    \cup {Obj(<<Field(KeyN, Obj(<<Field(KeyU, leaf)>>)), Field(KeyM, StrA)>>) : leaf \in NestedLeaves}

EventMValues ==
    {Num(<<"0">>), Num(<<"1">>), True, False, Str(<<>>), StrA, StrAB, Null} \cup Arrays
EventNValues ==
    {Null, StrA, Obj(<<>>), Obj(<<Field(KeyU, StrA)>>), Obj(<<Field(KeyU, StrAB)>>)}
Events ==
    {Obj(m \o n) : m \in {<<>>} \cup {<<Field(KeyM, v)>> : v \in EventMValues},
                   n \in {<<>>} \cup {<<Field(KeyN, v)>> : v \in EventNValues}}

(***************************************************************************)
(* One match tree compiled by Rule._processMatch and applied to one event  *)
(***************************************************************************)
MatchOff ==
    /\ mTree = Undefined
    /\ mEvent = Undefined
    /\ mPhase = "off"
    /\ mPred = Undefined
    /\ mBind = Undefined

\* _processMatch(match): compiles the test and the expand function
ProcessMatch ==
    /\ mPhase = "new"
    /\ mPhase' = IF CompileThrows(mTree) THEN "invalid" ELSE "compiled"
    /\ UNCHANGED <<mTree, mEvent, mPred, mBind>>
    /\ UNCHANGED nonMatchVars

\* option.match(message)
RunTest ==
    /\ mPhase = "compiled"
    /\ mPred' = TestMatch(mTree, mEvent)
    /\ mPhase' = "tested"
    /\ UNCHANGED <<mTree, mEvent, mBind>>
    /\ UNCHANGED nonMatchVars

\* option.expand(message)
RunExpand ==
    /\ mPhase = "tested"
    /\ mBind' = ExpandMatch(mTree, mEvent)
    /\ mPhase' = "bound"
    /\ UNCHANGED <<mTree, mEvent, mPred>>
    /\ UNCHANGED nonMatchVars

(***************************************************************************)
(* Rule: the options built by the constructor, and test(message)           *)
(***************************************************************************)
RuleOff ==
    /\ rSpec = [cases |-> <<>>]
    /\ rPhase = "off"
    /\ rEvent = Undefined
    /\ rTest = [threw |-> FALSE, index |-> -1]

\* match and match_not stanzas of the rule configuration; Undefined: left out
NestedA == Obj(<<Field(KeyN, Obj(<<Field(KeyU, StrA)>>))>>)
RuleMatches ==
    {Undefined,
     Obj(<<Field(KeyM, StrA)>>),
     Obj(<<Field(KeyM, RegexA)>>),
     Obj(<<Field(KeyM, RegexMixed)>>),
     Obj(<<Field(KeyM, UndefinedWord)>>),
     Obj(<<Field(KeyM, Arr(<<StrA>>))>>),
     NestedA,
     Obj(<<Field(KeyM, StrA), Field(KeyN, Obj(<<Field(KeyU, StrA)>>))>>)}
RuleMatchNots == {Undefined, Obj(<<Field(KeyM, StrA)>>), NestedA}
RuleEvents ==
    {Obj(m \o n) : m \in {<<>>} \cup {<<Field(KeyM, v)>> : v \in {StrA, StrAB, Arr(<<StrA>>)}},
                   n \in {<<>>} \cup {<<Field(KeyN, v)>> : v \in EventNValues}}

\* _processMatch: if (!match) return;
HasMatcher(match) == match.t # "undef"

\* option.match: matcher.test || (() => true)
OptionMatch(option, message) ==
    IF HasMatcher(option.match) THEN TestMatch(option.match, message) ELSE True

\* option.match_not: (...).test || (() => false)
OptionMatchNot(option, message) ==
    IF HasMatcher(option.match_not) THEN TestMatch(option.match_not, message) ELSE False

\* (option) => option.match(message) && !option.match_not(message)
OptionAccepts(option, message) ==
    LET m == OptionMatch(option, message)
        n == OptionMatchNot(option, message)
    IN  IF IsThrow(m) \/ ~Truthy(m) THEN m
        ELSE IF IsThrow(n) THEN Throw
        ELSE Bool(~Truthy(n))

\* this._options.findIndex(...), indices counted from 0
RECURSIVE FindIndex(_, _, _)
FindIndex(options, message, i) ==
    IF i > Len(options) THEN [threw |-> FALSE, index |-> -1]
    ELSE LET r == OptionAccepts(options[i], message) IN
         IF IsThrow(r) THEN [threw |-> TRUE, index |-> -1]
         ELSE IF Truthy(r) THEN [threw |-> FALSE, index |-> i - 1]
         ELSE FindIndex(options, message, i + 1)

\* Rule.test(message)
RuleTest(options, message) == FindIndex(options, message, 1)

\* the configuration gains one entry of `cases`
AddCase(match, matchNot) ==
    /\ rPhase = "config"
    /\ Len(rSpec.cases) < MaxCases
    /\ rSpec' = [rSpec EXCEPT !.cases = Append(@, [match |-> match, match_not |-> matchNot])]
    /\ UNCHANGED <<rPhase, rEvent, rTest>>
    /\ UNCHANGED nonRuleVars

\* new Rule(name, spec): compiles every option
NewRule ==
    /\ rPhase = "config"
    /\ rSpec.cases # <<>>
    /\ rPhase' = IF \E i \in 1..Len(rSpec.cases) :
                        \/ HasMatcher(rSpec.cases[i].match) /\ CompileThrows(rSpec.cases[i].match)
                        \/ HasMatcher(rSpec.cases[i].match_not) /\ CompileThrows(rSpec.cases[i].match_not)
                 THEN "invalid" ELSE "ready"
    /\ UNCHANGED <<rSpec, rEvent, rTest>>
    /\ UNCHANGED nonRuleVars

\* rule.test(message)
Test(message) ==
    /\ rPhase = "ready"
    /\ rEvent' = message
    /\ rTest' = RuleTest(rSpec.cases, message)
    /\ rPhase' = "tested"
    /\ UNCHANGED rSpec
    /\ UNCHANGED nonRuleVars

(***************************************************************************)
(* Rule._processExec and Rule.getExec                                      *)
(***************************************************************************)
KeyUri == <<"u", "r", "i">>
KeyMethod == <<"m", "e", "t", "h", "o", "d">>
KeyHeaders == <<"h", "e", "a", "d", "e", "r", "s">>
KeyFollowRedirect == <<"f", "o", "l", "l", "o", "w", "R", "e", "d", "i", "r", "e", "c", "t">>
KeyRetries == <<"r", "e", "t", "r", "i", "e", "s">>
KeyEncoding == <<"e", "n", "c", "o", "d", "i", "n", "g">>

\* req[key] = value
SetField(req, key, value) ==
    IF \E i \in 1..Len(req.kids) : req.kids[i].k = key
    THEN Obj([i \in 1..Len(req.kids) |->
                IF req.kids[i].k = key THEN Field(key, value) ELSE req.kids[i]])
    ELSE Obj(Append(req.kids, Field(key, value)))

\* req[key] = req[key] || value
SetDefault(req, key, value) ==
    IF Truthy(Lookup(req, key)) THEN req ELSE SetField(req, key, value)

\* req.constructor !== Object || !req.uri
BadRequest(req) == req.t # "obj" \/ ~Truthy(Lookup(req, KeyUri))

\* the request a template is made of, with the fields _processExec sets
Template(req) ==
    SetField(SetField(SetField(
        SetDefault(SetDefault(req, KeyMethod, Str(<<"g", "e", "t">>)), KeyHeaders, Obj(<<>>)),
        KeyFollowRedirect, False), KeyRetries, Num(<<"0">>)), KeyEncoding, Null)

\* if (!Array.isArray(exec)) exec = [exec]
ExecList(exec) == IF exec.t = "arr" THEN [i \in 1..Len(exec.kids) |-> exec.kids[i].v] ELSE <<exec>>

\* _processExec(exec): what it returns, whether it throws, whether it sets noop
ProcessExec_NeverNoop(exec) ==
    IF ~Truthy(exec) THEN [threw |-> FALSE, noop |-> FALSE, exec |-> Undefined]
    ELSE IF \E i \in 1..Len(ExecList(exec)) : BadRequest(ExecList(exec)[i])
        THEN [threw |-> TRUE, noop |-> FALSE, exec |-> Undefined]
    ELSE [threw |-> FALSE, noop |-> FALSE,
          exec |-> Arr([i \in 1..Len(ExecList(exec)) |-> Template(ExecList(exec)[i])])]
ProcessExec(exec) ==
    IF ~Truthy(exec) THEN [threw |-> FALSE, noop |-> TRUE, exec |-> Undefined]
    ELSE IF \E i \in 1..Len(ExecList(exec)) : BadRequest(ExecList(exec)[i])
        THEN [threw |-> TRUE, noop |-> FALSE, exec |-> Undefined]
    ELSE [threw |-> FALSE, noop |-> FALSE,
          exec |-> Arr([i \in 1..Len(ExecList(exec)) |-> Template(ExecList(exec)[i])])]

ExecOff ==
    /\ eSpec = [cases |-> Undefined, exec |-> Undefined]
    /\ ePhase = "off"
    /\ eRule = [noop |-> Undefined, exec |-> <<>>]
    /\ eGot = [index |-> -1, exec |-> Undefined]

ReqA == Obj(<<Field(KeyUri, StrA)>>)
ReqB == Obj(<<Field(KeyUri, StrAB), Field(KeyMethod, Str(<<"p", "o", "s", "t">>))>>)
ReqNoUri == Obj(<<Field(KeyMethod, Str(<<"p", "o", "s", "t">>))>>)
Execs == {Undefined, ReqA, Arr(<<>>), Arr(<<ReqA, ReqB>>), Arr(<<ReqB, ReqA>>), Arr(<<ReqA, ReqNoUri>>)}

\* the options the constructor walks: this.spec.cases || [ this.spec ]
ExecOptions(spec) ==
    IF spec.cases = Undefined THEN <<spec.exec>>
    ELSE [i \in 1..Len(spec.cases.kids) |-> Lookup(spec.cases.kids[i].v, <<"e", "x", "e", "c">>)]

\* the configuration gets its top-level exec
SetExec(exec) ==
    /\ ePhase = "config"
    /\ eSpec.cases = Undefined /\ eSpec.exec = Undefined
    /\ exec # Undefined
    /\ eSpec' = [eSpec EXCEPT !.exec = exec]
    /\ UNCHANGED <<ePhase, eRule, eGot>>
    /\ UNCHANGED nonExecVars

\* the configuration gains one entry of `cases`, with or without exec
AddExecCase(exec) ==
    /\ ePhase = "config"
    /\ eSpec.exec = Undefined
    /\ eSpec.cases = Undefined \/ Len(eSpec.cases.kids) < MaxCases
    /\ LET case == IF exec = Undefined THEN Obj(<<>>)
                   ELSE Obj(<<Field(<<"e", "x", "e", "c">>, exec)>>)
           old == IF eSpec.cases = Undefined THEN <<>>
                  ELSE [i \in 1..Len(eSpec.cases.kids) |-> eSpec.cases.kids[i].v]
       IN  eSpec' = [eSpec EXCEPT !.cases = Arr(Append(old, case))]
    /\ UNCHANGED <<ePhase, eRule, eGot>>
    /\ UNCHANGED nonExecVars

\* new Rule(name, spec): _processExec for every option, in order
BuildExecs ==
    /\ ePhase = "config"
    /\ LET done == [i \in 1..Len(ExecOptions(eSpec)) |-> ProcessExec(ExecOptions(eSpec)[i])] IN
       IF \E i \in 1..Len(done) : done[i].threw
       THEN /\ ePhase' = "invalid"
            /\ UNCHANGED eRule
       ELSE /\ ePhase' = "built"
            /\ eRule' = [noop |-> IF \E i \in 1..Len(done) : done[i].noop THEN True ELSE Undefined,
                         exec |-> [i \in 1..Len(done) |-> done[i].exec]]
    /\ UNCHANGED <<eSpec, eGot>>
    /\ UNCHANGED nonExecVars

\* rule.getExec(index)
GetExec(index) ==
    /\ ePhase \in {"built", "got"}
    /\ index \in 0..(Len(eRule.exec) - 1)
    /\ eGot' = [index |-> index, exec |-> eRule.exec[index + 1]]
    /\ ePhase' = "got"
    /\ UNCHANGED <<eSpec, eRule>>
    /\ UNCHANGED nonExecVars

(***************************************************************************)
(* Rule constructor: retry policy                                          *)
(***************************************************************************)
DEFAULT_RETRY_DELAY == 60000
DEFAULT_RETRY_FACTOR == 6
DEFAULT_RETRY_LIMIT == 2

\* a numeric field of the rule spec: left out, or set to n
Absent == [set |-> FALSE, n |-> 0]
Given(n) == [set |-> TRUE, n |-> n]

\* this.spec.<field> || DEFAULT: undefined and 0 are both falsy
OrDefault(field, default) == IF field.set /\ field.n # 0 THEN field.n ELSE default

\* this.spec.retry_delay / retry_limit / retry_factor after the constructor
RetryPolicy(conf) ==
    [retry_delay |-> OrDefault(conf.retry_delay, DEFAULT_RETRY_DELAY),
     retry_limit |-> OrDefault(conf.retry_limit, DEFAULT_RETRY_LIMIT),
     retry_factor |-> OrDefault(conf.retry_factor, DEFAULT_RETRY_FACTOR)]

(***************************************************************************)
(* _compileErrorCheckCondition: the retry_on / ignore classifier           *)
(***************************************************************************)
KeyStatus == <<"s", "t", "a", "t", "u", "s">>
KeyBody == <<"b", "o", "d", "y">>

Digits == <<"0", "1", "2", "3", "4", "5", "6", "7", "8", "9">>
IsDigit(c) == \E i \in 1..Len(Digits) : Digits[i] = c
DigitVal(c) == (CHOOSE i \in 1..Len(Digits) : Digits[i] = c) - 1

\* the number written by the digits ds in the given base
RECURSIVE BaseValue(_, _)
BaseValue(ds, base) ==
    IF ds = <<>> THEN 0
    ELSE BaseValue(SubSeq(ds, 1, Len(ds) - 1), base) * base + DigitVal(ds[Len(ds)])

\* the value of the numeric literal the option text becomes inside the generated
\* function (new Function bodies are sloppy code, a leading 0 followed by octal
\* digits only is a legacy octal literal)
NumLiteralValue(opt) ==
    IF Len(opt) > 1 /\ opt[1] = "0" /\ \A i \in 1..Len(opt) : DigitVal(opt[i]) < 8
    THEN BaseValue(opt, 8)
    ELSE BaseValue(opt, 10)

\* /^[0-9]+$/.test(opt) and /^[0-9x]+$/.test(opt)
IsDigitsOption(opt) == opt # <<>> /\ \A i \in 1..Len(opt) : IsDigit(opt[i])
IsPatternOption(opt) == opt # <<>> /\ \A i \in 1..Len(opt) : IsDigit(opt[i]) \/ opt[i] = "x"

\* createCondition('status', option) applied to res: a number must be equal,
\* a pattern of digits and x must fit String(res.status) with \d for each x
StatusCondition(opt, res) ==
    LET status == Lookup(res, KeyStatus) IN
    IF IsDigitsOption(opt)
    THEN status.t = "num" /\ BaseValue(status.s, 10) = NumLiteralValue(opt)
    ELSE LET str == ToStr(status) IN
         /\ Len(str) = Len(opt)
         /\ \A i \in 1..Len(opt) : IF opt[i] = "x" THEN IsDigit(str[i]) ELSE str[i] = opt[i]

\* the order of the characters used in keys, by code unit
CharOrder == <<"\"", "'", "0", "1", "2", "3", "4", "5", "6", "7", "8", "9", "\\",
               "a", "b", "c", "d", "e", "f", "m", "n", "o", "s", "t", "u", "x", "y">>
CharRank(c) == CHOOSE i \in 1..Len(CharOrder) : CharOrder[i] = c

\* a < b as Array.prototype.sort compares strings
RECURSIVE KeyLess(_, _)
KeyLess(a, b) ==
    IF b = <<>> THEN FALSE
    ELSE IF a = <<>> THEN TRUE
    ELSE IF a[1] # b[1] THEN CharRank(a[1]) < CharRank(b[1])
    ELSE KeyLess(Tail(a), Tail(b))

\* Object.keys(node).sort(): the members in key order
RECURSIVE SortKids(_)
SortKids(kids) ==
    IF kids = <<>> THEN <<>>
    ELSE LET i == CHOOSE i \in 1..Len(kids) :
                    \A j \in 1..Len(kids) : j # i => KeyLess(kids[i].k, kids[j].k)
         IN  <<kids[i]>> \o SortKids(SubSeq(kids, 1, i - 1) \o SubSeq(kids, i + 1, Len(kids)))

\* JSON.stringify of a string: quotes and backslashes are escaped
RECURSIVE JsonEscape(_)
JsonEscape(chars) ==
    IF chars = <<>> THEN <<>>
    ELSE (IF chars[1] \in {"\"", "\\"} THEN <<"\\", chars[1]>> ELSE <<chars[1]>>)
         \o JsonEscape(Tail(chars))

\* json-stable-stringify(v) for a v other than undefined
RECURSIVE Stringify(_)
RECURSIVE StringifyItems(_, _, _)
StringifyItems(kids, isObj, i) ==
    IF i > Len(kids) THEN <<>>
    ELSE (IF i > 1 THEN <<",">> ELSE <<>>)
         \o (IF isObj THEN <<"\"">> \o JsonEscape(kids[i].k) \o <<"\"", ":">> ELSE <<>>)
         \o Stringify(kids[i].v)
         \o StringifyItems(kids, isObj, i + 1)
Stringify(v) ==
    CASE v.t = "str" -> <<"\"">> \o JsonEscape(v.s) \o <<"\"">>
      [] v.t = "arr" -> <<"[">> \o StringifyItems(v.kids, FALSE, 1) \o <<"]">>
      [] v.t = "obj" -> <<"{">> \o StringifyItems(SortKids(v.kids), TRUE, 1) \o <<"}">>
      [] OTHER -> v.s

\* the string a single-quoted literal with this text denotes; ok is FALSE when
\* a quote inside the text ends the literal early, which is a SyntaxError
RECURSIVE QuotedLiteral(_, _, _)
QuotedLiteral(text, i, out) ==
    IF i > Len(text) THEN [ok |-> TRUE, chars |-> out]
    ELSE IF text[i] = "'" THEN [ok |-> FALSE, chars |-> out]
    ELSE IF text[i] = "\\"
        THEN IF i = Len(text) THEN [ok |-> FALSE, chars |-> out]
             ELSE QuotedLiteral(text, i + 2, Append(out, text[i + 1]))
    ELSE QuotedLiteral(text, i + 1, Append(out, text[i]))

\* createCondition(retryCond, option): the generated source does not parse
ConditionThrows(retryCond, option) ==
    IF retryCond = KeyStatus
    THEN option.t \in {"undef", "null"} \/ ~IsPatternOption(ToStr(option))
    ELSE ~QuotedLiteral(Stringify(option), 1, <<>>).ok

\* createCondition(retryCond, option): the generated condition applied to res
Condition(retryCond, option, res) ==
    IF retryCond = KeyStatus THEN StatusCondition(ToStr(option), res)
    ELSE LET value == Lookup(res, retryCond) IN
         /\ value.t # "undef"
         /\ Stringify(value) = QuotedLiteral(Stringify(option), 1, <<>>).chars

\* new Function(...) throws: a condition does not compile, an array has no
\* option ('()') or the stanza has no field ('return ();')
ErrorCheckThrows(retryDefinition) ==
    \/ retryDefinition.kids = <<>>
    \/ \E i \in 1..Len(retryDefinition.kids) :
        LET f == retryDefinition.kids[i] IN
        IF f.v.t = "arr"
        THEN \/ f.v.kids = <<>>
             \/ \E j \in 1..Len(f.v.kids) : ConditionThrows(f.k, f.v.kids[j].v)
        ELSE ConditionThrows(f.k, f.v)

\* the compiled function: conditions joined with &&, array options with ||
ErrorCheck(retryDefinition, res) ==
    \A i \in 1..Len(retryDefinition.kids) :
        LET f == retryDefinition.kids[i] IN
        IF f.v.t = "arr"
        THEN \E j \in 1..Len(f.v.kids) : Condition(f.k, f.v.kids[j].v, res)
        ELSE Condition(f.k, f.v, res)

\* retry_on default { status: [ '50x' ] } and ignore default { status: [ 412 ] }
DefaultRetryOn_AnyServerError == Obj(<<Field(KeyStatus, Arr(<<Str(<<"5", "x", "x">>)>>))>>)
DefaultRetryOn == Obj(<<Field(KeyStatus, Arr(<<Str(<<"5", "0", "x">>)>>))>>)
DefaultIgnore == Obj(<<Field(KeyStatus, Arr(<<Num(<<"4", "1", "2">>)>>))>>)

\* this.spec.retry_on || {...}, this.spec.ignore || {...}
RetryOnOf(spec) == IF Truthy(spec.retry_on) THEN spec.retry_on ELSE DefaultRetryOn
IgnoreOf(spec) == IF Truthy(spec.ignore) THEN spec.ignore ELSE DefaultIgnore

\* shouldRetry and shouldIgnoreError of a rule without retry_on and ignore
ShouldRetry(res) == ErrorCheck(DefaultRetryOn, res)
ShouldIgnoreError(res) == ErrorCheck(DefaultIgnore, res)

(***************************************************************************)
(* The two classifiers a Rule compiles, applied to one result              *)
(***************************************************************************)
ClassifyOff ==
    /\ cSpec = [retry_on |-> Undefined, ignore |-> Undefined]
    /\ cPhase = "off"
    /\ cResult = Undefined
    /\ cOut = [retry |-> FALSE, ignore |-> FALSE]

StrQuote == Str(<<"a", "'", "b">>)
StrDoubleQuote == Str(<<"a", "\"", "b">>)
ObjMN == Obj(<<Field(KeyM, StrA), Field(KeyN, Num(<<"1">>))>>)
ObjNM == Obj(<<Field(KeyN, Num(<<"1">>)), Field(KeyM, StrA)>>)

StatusOptions ==
    {Num(<<"4", "1", "2">>), Num(<<"5", "0", "0">>), Str(<<"5", "0", "x">>), Str(<<"x">>),
     Str(<<"0", "1", "2">>), Str(<<"5", "y">>)}
BodyOptions == {StrA, Num(<<"1">>), StrQuote, StrDoubleQuote, ObjMN}

\* retry_on stanzas; Undefined: the rule spec has none
RetryOnStanzas ==
    {Undefined, Obj(<<>>)}
    \cup {Obj(<<Field(KeyStatus, o)>>) : o \in StatusOptions}
    \cup {Obj(<<Field(KeyStatus, Arr(os))>>) :
            os \in {<<>>, <<Num(<<"5", "0", "0">>), Str(<<"x">>)>>,
                    <<Num(<<"4", "1", "2">>), Str(<<"5", "0", "x">>)>>}}
    \cup {Obj(<<Field(KeyBody, o)>>) : o \in BodyOptions}
    \cup {Obj(<<Field(KeyBody, Arr(<<StrA, Num(<<"1">>)>>))>>),
          Obj(<<Field(KeyStatus, Str(<<"5", "0", "x">>)), Field(KeyBody, StrA)>>),
          Obj(<<Field(KeyBody, ObjMN), Field(KeyStatus, Num(<<"4", "1", "2">>))>>)}
IgnoreStanzas == {Undefined, Obj(<<Field(KeyStatus, Str(<<"5", "x", "x">>))>>)}

ResultStatuses ==
    {Num(<<"5">>), Num(<<"1", "0">>), Num(<<"1", "2">>), Num(<<"4", "0", "4">>),
     Num(<<"4", "1", "2">>), Num(<<"4", "9", "9">>), Num(<<"5", "0", "0">>),
     Num(<<"5", "0", "9">>), Num(<<"5", "1", "0">>), Num(<<"5", "0", "0", "0">>)}
ResultBodies == {StrA, StrAB, Num(<<"1">>), StrQuote, StrDoubleQuote, ObjNM, Obj(<<Field(KeyM, StrA)>>)}
Results ==
    {Obj(st \o bd) : st \in {<<>>} \cup {<<Field(KeyStatus, v)>> : v \in ResultStatuses},
                     bd \in {<<>>} \cup {<<Field(KeyBody, v)>> : v \in ResultBodies}}

\* Rule.constructor: the defaults for retry_on and ignore, then both compiled
CompileChecks ==
    /\ cPhase = "new"
    /\ cPhase' = IF ErrorCheckThrows(RetryOnOf(cSpec)) \/ ErrorCheckThrows(IgnoreOf(cSpec))
                 THEN "invalid" ELSE "compiled"
    /\ UNCHANGED <<cSpec, cResult, cOut>>
    /\ UNCHANGED nonClassifyVars

\* rule.shouldRetry(result) and rule.shouldIgnoreError(result)
Classify ==
    /\ cPhase = "compiled"
    /\ cOut' = [retry |-> ErrorCheck(RetryOnOf(cSpec), cResult),
                ignore |-> ErrorCheck(IgnoreOf(cSpec), cResult)]
    /\ cPhase' = "classified"
    /\ UNCHANGED <<cSpec, cResult>>
    /\ UNCHANGED nonClassifyVars

(***************************************************************************)
(* Retry handling of one source event whose exec step fails (spec 4.7)     *)
(***************************************************************************)
NoConf == [topic |-> Undefined, retry_delay |-> Absent, retry_limit |-> Absent,
           retry_factor |-> Absent]

RetryOff ==
    /\ xConf = NoConf
    /\ xRule = RetryPolicy(NoConf)
    /\ xPhase = "off"
    /\ xLeft = 0
    /\ xResponses = <<>>
    /\ xEnvelopes = <<>>
    /\ xErrors = 0

Response(digits) == Obj(<<Field(KeyStatus, Num(digits))>>)
Statuses == {<<"2", "0", "0">>, <<"4", "0", "4">>, <<"4", "1", "2">>,
             <<"5", "0", "0">>, <<"5", "0", "3">>}
ConfiguredLimits == {Absent} \cup {Given(n) : n \in 0..MaxRetryLimit}
ConfiguredTopics == {Undefined, StrA}
ConfiguredDelays == {Absent, Given(0), Given(1)}
ConfiguredFactors == {Absent, Given(0), Given(1)}

\* new Rule(name, spec): throws without a topic, else fills in the retry policy
ConfigureRule(topic, delay, limit, factor) ==
    /\ xPhase = "config"
    /\ xConf' = [topic |-> topic, retry_delay |-> delay, retry_limit |-> limit,
                 retry_factor |-> factor]
    /\ xRule' = IF Truthy(topic) THEN RetryPolicy(xConf') ELSE xRule
    /\ xPhase' = IF Truthy(topic) THEN "ready" ELSE "invalid"
    /\ UNCHANGED <<xLeft, xResponses, xEnvelopes, xErrors>>
    /\ UNCHANGED nonRetryVars

\* a source event arrives: the first retry envelope would carry retry_limit
ReceiveEvent ==
    /\ xPhase = "ready"
    /\ xLeft' = xRule.retry_limit
    /\ xPhase' = "running"
    /\ UNCHANGED <<xConf, xRule, xResponses, xEnvelopes, xErrors>>
    /\ UNCHANGED nonRetryVars

\* one request attempt, for the source event or for the retry envelope last
\* produced, and the classification of its outcome
Attempt(digits) ==
    /\ xPhase = "running"
    /\ xResponses' = Append(xResponses, digits)
    /\ IF digits[1] = "2" \/ ShouldIgnoreError(Response(digits))
         THEN /\ xPhase' = "done"
              /\ UNCHANGED <<xLeft, xEnvelopes, xErrors>>
       ELSE IF ShouldRetry(Response(digits)) /\ xLeft > 0
         THEN /\ xEnvelopes' = Append(xEnvelopes, xLeft)
              /\ xLeft' = xLeft - 1
              /\ UNCHANGED <<xPhase, xErrors>>
       ELSE /\ xErrors' = xErrors + 1
            /\ xPhase' = "done"
            /\ UNCHANGED <<xLeft, xEnvelopes>>
    /\ UNCHANGED <<xConf, xRule>>
    /\ UNCHANGED nonRetryVars

(***************************************************************************)
(* KafkaFactory                                                            *)
(***************************************************************************)
KeyBrokerList == <<"m", "e", "t", "a", "d", "a", "t", "a", "_", "b", "r", "o", "k", "e", "r", "_", "l", "i", "s", "t">>
KeyDcName == <<"d", "c", "_", "n", "a", "m", "e">>
KeyConsumeDc == <<"c", "o", "n", "s", "u", "m", "e", "_", "d", "c">>
KeyProduceDc == <<"p", "r", "o", "d", "u", "c", "e", "_", "d", "c">>
KeyConsumer == <<"c", "o", "n", "s", "u", "m", "e", "r">>
KeyDefaultTopicConf == <<"d", "e", "f", "a", "u", "l", "t", "_", "t", "o", "p", "i", "c", "_", "c", "o", "n", "f">>
KeyAutoCommit == <<"e", "n", "a", "b", "l", "e", ".", "a", "u", "t", "o", ".", "c", "o", "m", "m", "i", "t">>
KeyOffsetReset == <<"a", "u", "t", "o", ".", "o", "f", "f", "s", "e", "t", ".", "r", "e", "s", "e", "t">>
KeyMetadataBrokerList == <<"m", "e", "t", "a", "d", "a", "t", "a", ".", "b", "r", "o", "k", "e", "r", ".", "l", "i", "s", "t">>
KeyGroupId == <<"g", "r", "o", "u", "p", ".", "i", "d">>
KeyClientId == <<"c", "l", "i", "e", "n", "t", ".", "i", "d">>

StrFalse == Str(<<"f", "a", "l", "s", "e">>)
StrTrue == Str(<<"t", "r", "u", "e">>)

\* 'enable.auto.commit': 'false'
CONSUMER_DEFAULTS == Obj(<<Field(KeyAutoCommit, StrFalse)>>)
\* 'auto.offset.reset': 'largest'
CONSUMER_TOPIC_DEFAULTS == Obj(<<Field(KeyOffsetReset, Str(<<"l", "a", "r", "g", "e", "s", "t">>))>>)

DefaultDC == Str(<<"d", "a", "t", "a", "c", "e", "n", "t", "e", "r", "1">>)

\* Object.assign(target, source): the source's members set on the target in order
RECURSIVE ObjectAssign(_, _)
ObjectAssign(target, source) ==
    IF source.t # "obj" \/ source.kids = <<>> THEN target
    ELSE ObjectAssign(SetField(target, source.kids[1].k, source.kids[1].v),
                      Obj(Tail(source.kids)))

\* delete obj[key]
DeleteField(obj, key) == Obj(SelectSeq(obj.kids, LAMBDA f : f.k # key))

\* a || b
OrElse(a, b) == IF Truthy(a) THEN a ELSE b

\* kafkaConf.consumer && kafkaConf.consumer.default_topic_conf || {}
ConsumerTopicStanza(conf) ==
    LET consumer == Lookup(conf, KeyConsumer) IN
    OrElse(IF Truthy(consumer) THEN Lookup(consumer, KeyDefaultTopicConf) ELSE consumer,
           Obj(<<>>))

\* kafkaConf.consumer once the constructor has deleted its default_topic_conf
ConsumerStanza(conf) ==
    LET consumer == Lookup(conf, KeyConsumer) IN
    IF Truthy(consumer) THEN DeleteField(consumer, KeyDefaultTopicConf) ELSE consumer

\* get consumeDC() / get produceDC()
ConsumeDCOf(conf) == OrElse(Lookup(conf, KeyDcName), OrElse(Lookup(conf, KeyConsumeDc), DefaultDC))
ProduceDCOf(conf) == OrElse(Lookup(conf, KeyDcName), OrElse(Lookup(conf, KeyProduceDc), DefaultDC))

FactoryOff ==
    /\ kConf = Undefined
    /\ kPhase = "off"
    /\ kFactory = [consumerConf |-> Undefined, consumerTopicConf |-> Undefined]
    /\ kOut = [op |-> "none", value |-> Undefined]

Brokers == Str(<<"b">>)
OptionalMembers(key, values) == {<<>>} \cup {<<Field(key, v)>> : v \in values}
ConsumerStanzas ==
    {Obj(a \o g \o t) :
        a \in OptionalMembers(KeyAutoCommit, {StrFalse, StrTrue, True, False}),
        g \in OptionalMembers(KeyGroupId, {StrA}),
        t \in OptionalMembers(KeyDefaultTopicConf,
                              {Obj(<<Field(KeyOffsetReset, Str(<<"s", "m", "a", "l", "l", "e", "s", "t">>))>>)})}
KafkaConfs ==
    {Obj(b \o d \o c \o p \o s) :
        b \in OptionalMembers(KeyBrokerList, {Brokers}),
        d \in OptionalMembers(KeyDcName, {Str(<<"d">>)}),
        c \in OptionalMembers(KeyConsumeDc, {Str(<<"c">>)}),
        p \in OptionalMembers(KeyProduceDc, {Str(<<"p">>)}),
        s \in OptionalMembers(KeyConsumer, ConsumerStanzas)}
GroupIds == {StrA, StrAB}
ClientIds == {Str(<<"0">>), Str(<<"1">>)}

\* new KafkaFactory(kafkaConf)
NewFactory ==
    /\ kPhase = "new"
    /\ IF ~Truthy(Lookup(kConf, KeyBrokerList))
       THEN /\ kPhase' = "invalid"
            /\ UNCHANGED <<kConf, kFactory>>
       ELSE /\ kPhase' = "ready"
            /\ kConf' = IF Truthy(Lookup(kConf, KeyConsumer))
                        THEN SetField(kConf, KeyConsumer, ConsumerStanza(kConf))
                        ELSE kConf
            /\ kFactory' =
                [consumerTopicConf |->
                    ObjectAssign(ObjectAssign(Obj(<<>>), CONSUMER_TOPIC_DEFAULTS),
                                 ConsumerTopicStanza(kConf)),
                 consumerConf |->
                    SetField(ObjectAssign(ObjectAssign(Obj(<<>>), CONSUMER_DEFAULTS),
                                          OrElse(ConsumerStanza(kConf), Obj(<<>>))),
                             KeyMetadataBrokerList, Lookup(kConf, KeyBrokerList))]
    /\ UNCHANGED kOut
    /\ UNCHANGED nonFactoryVars

\* factory.consumeDC
ConsumeDC ==
    /\ kPhase = "ready"
    /\ kOut' = [op |-> "consumeDC", value |-> ConsumeDCOf(kConf)]
    /\ UNCHANGED <<kConf, kPhase, kFactory>>
    /\ UNCHANGED nonFactoryVars

\* factory.produceDC
ProduceDC ==
    /\ kPhase = "ready"
    /\ kOut' = [op |-> "produceDC", value |-> ProduceDCOf(kConf)]
    /\ UNCHANGED <<kConf, kPhase, kFactory>>
    /\ UNCHANGED nonFactoryVars

\* factory.createConsumer(groupId, topic): the configuration the KafkaConsumer
\* is made with; clientId is what Math.random gives
CreateConsumer(groupId, clientId) ==
    /\ kPhase = "ready"
    /\ kOut' = [op |-> "createConsumer",
                value |-> SetField(SetField(ObjectAssign(Obj(<<>>), kFactory.consumerConf),
                                            KeyGroupId, groupId),
                                   KeyClientId, clientId)]
    /\ UNCHANGED <<kConf, kPhase, kFactory>>
    /\ UNCHANGED nonFactoryVars

(***************************************************************************)
(* GuaranteedProducer                                                      *)
(***************************************************************************)

\* `${topic}:${key}`
ReportKey(topic, key) == topic \o <<":">> \o key

\* if (!key)
KeyMissing_NeverMissing(key) == FALSE
KeyMissing(key) == key = <<>>

\* if (this._pending[reportKey])
HasPending_NoCheck(pend, rk) == FALSE
HasPending(pend, rk) == rk \in DOMAIN pend

\* this._pending[reportKey] = resolve
SetPending(pend, rk, id) == [k \in DOMAIN pend \cup {rk} |-> IF k = rk THEN id ELSE pend[k]]

\* delete this._pending[reportKey]
DeletePending(pend, rk) == [k \in DOMAIN pend \ {rk} |-> pend[k]]

NoPending == [k \in {} |-> 0]

\* resolve(report): the promise keeps its first settlement
ResolveCall(cs, id, msg) ==
    [cs EXCEPT ![id] = [@ EXCEPT !.nres = @ + 1,
                                 !.st = IF cs[id].st = "pending" THEN "resolved" ELSE @,
                                 !.by = IF cs[id].st = "pending" THEN msg ELSE @]]

\* reject(err)
RejectCall(cs, id) ==
    [cs EXCEPT ![id] = [@ EXCEPT !.nrej = @ + 1,
                                 !.st = IF cs[id].st = "pending" THEN "rejected" ELSE @]]

NewCall(topic, key, err, result) ==
    [topic |-> topic, key |-> key, st |-> "pending", err |-> err,
     result |-> result, nres |-> 0, nrej |-> 0, by |-> 0]

\* the 'delivery-report' handler; yields the new <<pending, calls, logged>>
OnDeliveryReport_KeepEntry(pend, cs, lg, report) ==
    LET reportKey == ReportKey(report.topic, report.key) IN
    IF reportKey \notin DOMAIN pend
        THEN <<pend, cs, lg + 1>>
        ELSE <<pend, ResolveCall(cs, pend[reportKey], report.msg), lg>>
OnDeliveryReport_ClearAll(pend, cs, lg, report) ==
    LET reportKey == ReportKey(report.topic, report.key) IN
    IF reportKey \notin DOMAIN pend
        THEN <<pend, cs, lg + 1>>
        ELSE <<NoPending, ResolveCall(cs, pend[reportKey], report.msg), lg>>
OnDeliveryReport(pend, cs, lg, report) ==
    LET reportKey == ReportKey(report.topic, report.key) IN
    IF reportKey \notin DOMAIN pend
        THEN <<pend, cs, lg + 1>>
        ELSE <<DeletePending(pend, reportKey),
               ResolveCall(cs, pend[reportKey], report.msg), lg>>

\* poll(): the library emits every report it holds, in order
RECURSIVE EmitReports(_, _, _, _)
EmitReports(pend, cs, lg, reports) ==
    IF reports = <<>> THEN <<pend, cs, lg>>
    ELSE LET r == OnDeliveryReport(pend, cs, lg, Head(reports)) IN
         EmitReports(r[1], r[2], r[3], Tail(reports))

\* produce(topic, partition, message, key); `result` is what super.produce does
Produce(topic, key, result) ==
    /\ Len(calls) < MaxCalls
    /\ connected \/ result = "throw"
    /\ LET id == Len(calls) + 1
           reportKey == ReportKey(topic, key) IN
       IF KeyMissing(key) THEN
            /\ calls' = Append(calls, NewCall(topic, key, "nokey", "notcalled"))
            /\ ticks' = Append(ticks, [op |-> "reject", call |-> id, rk |-> <<>>])
            /\ UNCHANGED <<pending, bus>>
       ELSE IF HasPending(pending, reportKey) THEN
            /\ calls' = Append(calls, NewCall(topic, key, "duplicate", "notcalled"))
            /\ ticks' = Append(ticks, [op |-> "reject", call |-> id, rk |-> <<>>])
            /\ UNCHANGED <<pending, bus>>
       ELSE
            /\ pending' = SetPending(pending, reportKey, id)
            /\ IF result = "true"
                 THEN /\ calls' = Append(calls, NewCall(topic, key, "none", result))
                      /\ bus' = bus \cup {id}
                      /\ UNCHANGED ticks
                 ELSE /\ calls' = Append(calls, NewCall(topic, key, "send", result))
                      /\ ticks' = Append(ticks, [op |-> "fail", call |-> id, rk |-> reportKey])
                      /\ UNCHANGED bus
    /\ UNCHANGED <<ready, pollInterval, connected, logged>>
    /\ UNCHANGED nonProducerVars

\* one process.nextTick callback runs
RunTick ==
    /\ ticks # <<>>
    /\ LET t == Head(ticks) IN
       /\ pending' = IF t.op = "fail" THEN DeletePending(pending, t.rk) ELSE pending
       /\ calls' = RejectCall(calls, t.call)
    /\ ticks' = Tail(ticks)
    /\ UNCHANGED <<bus, ready, pollInterval, connected, logged>>
    /\ UNCHANGED nonProducerVars

\* the broker acknowledges a message: its report is queued inside the library
Ack(id) ==
    /\ connected
    /\ id \in bus
    /\ bus' = bus \ {id}
    /\ ready' = Append(ready, [topic |-> calls[id].topic, key |-> calls[id].key, msg |-> id])
    /\ UNCHANGED <<calls, pending, ticks, pollInterval, connected, logged>>
    /\ UNCHANGED nonProducerVars

\* setInterval(() => this.poll(), 500): a timer task, so the tick queue is drained
Poll ==
    /\ pollInterval
    /\ ticks = <<>>
    /\ ready # <<>>
    /\ LET r == EmitReports(pending, calls, logged, ready) IN
       /\ pending' = r[1]
       /\ calls' = r[2]
       /\ logged' = r[3]
    /\ ready' = <<>>
    /\ UNCHANGED <<ticks, bus, pollInterval, connected>>
    /\ UNCHANGED nonProducerVars

\* the library queues a delivery report for a message that no resolver of the
\* pending map need be waiting for (msg 0: not the message of a call made here)
UnknownReport(topic, key) ==
    /\ connected
    /\ logged + Cardinality({i \in 1..Len(ready) : ready[i].msg = 0}) < MaxUnknown
    /\ ready' = Append(ready, [topic |-> topic, key |-> key, msg |-> 0])
    /\ UNCHANGED <<calls, pending, ticks, bus, pollInterval, connected, logged>>
    /\ UNCHANGED nonProducerVars

\* disconnect(cb): clearInterval, then the underlying producer's disconnect
Disconnect ==
    /\ connected
    /\ pollInterval' = FALSE
    /\ connected' = FALSE
    /\ UNCHANGED <<calls, pending, ticks, bus, ready, logged>>
    /\ UNCHANGED nonProducerVars

\* after the GuaranteedProducer constructor
ProducerInit ==
    /\ calls = <<>>
    /\ pending = NoPending
    /\ ticks = <<>>
    /\ bus = {}
    /\ ready = <<>>
    /\ pollInterval = TRUE
    /\ connected = TRUE
    /\ logged = 0

Init ==
    /\ ProducerInit
    /\ MatchOff
    /\ RuleOff
    /\ RetryOff
    /\ ClassifyOff
    /\ ExecOff
    /\ FactoryOff

Next ==
    \/ \E topic \in Topics, key \in Keys, result \in SendResults : Produce(topic, key, result)
    \/ RunTick
    \/ \E id \in bus : Ack(id)
    \/ Poll
    \/ Disconnect

Spec == Init /\ [][Next]_vars

\* the producer while it stays connected: the event loop runs every queued
\* nextTick callback, the interval keeps firing and the broker acknowledges
NextLive ==
    \/ \E topic \in Topics, key \in Keys, result \in SendResults : Produce(topic, key, result)
    \/ RunTick
    \/ \E id \in bus : Ack(id)
    \/ Poll

SpecLive ==
    /\ Init
    /\ [][NextLive]_vars
    /\ WF_vars(RunTick)
    /\ WF_vars(\E id \in bus : Ack(id))
    /\ WF_vars(Poll)

\* the producer on one topic, when the library also emits reports that it has
\* no resolver for
ReportTopics == {<<"a">>}
ReportKeys == {<<"c">>, <<"b", ":", "c">>}

NextReports ==
    \/ \E topic \in ReportTopics, key \in ReportKeys, result \in SendResults :
            Produce(topic, key, result)
    \/ RunTick
    \/ \E id \in bus : Ack(id)
    \/ \E topic \in ReportTopics, key \in ReportKeys : UnknownReport(topic, key)
    \/ Poll
    \/ Disconnect

SpecReports == Init /\ [][NextReports]_vars


\* a match tree and an event, drawn from the bounded sets
InitMatch ==
    /\ ProducerInit
    /\ RuleOff
    /\ RetryOff
    /\ ClassifyOff
    /\ ExecOff
    /\ FactoryOff
    /\ mTree \in MatchTrees
    /\ mEvent \in Events
    /\ mPhase = "new"
    /\ mPred = Undefined
    /\ mBind = Undefined

NextMatch ==
    \/ ProcessMatch
    \/ RunTest
    \/ RunExpand

SpecMatch == InitMatch /\ [][NextMatch]_vars


\* a rule configuration is written, the Rule is built and tests one message
InitRule ==
    /\ ProducerInit
    /\ MatchOff
    /\ RetryOff
    /\ ClassifyOff
    /\ ExecOff
    /\ FactoryOff
    /\ rSpec = [cases |-> <<>>]
    /\ rPhase = "config"
    /\ rEvent = Undefined
    /\ rTest = [threw |-> FALSE, index |-> -1]

NextRule ==
    \/ \E match \in RuleMatches, matchNot \in RuleMatchNots : AddCase(match, matchNot)
    \/ NewRule
    \/ \E message \in RuleEvents : Test(message)

SpecRule == InitRule /\ [][NextRule]_vars


\* a rule is configured and built, one source event arrives and is attempted
\* until its handling ends
InitRetry ==
    /\ ProducerInit
    /\ MatchOff
    /\ RuleOff
    /\ ClassifyOff
    /\ ExecOff
    /\ FactoryOff
    /\ xConf = NoConf
    /\ xRule = RetryPolicy(NoConf)
    /\ xPhase = "config"
    /\ xLeft = 0
    /\ xResponses = <<>>
    /\ xEnvelopes = <<>>
    /\ xErrors = 0

NextRetry ==
    \/ \E topic \in ConfiguredTopics, delay \in ConfiguredDelays,
          limit \in ConfiguredLimits, factor \in ConfiguredFactors :
            ConfigureRule(topic, delay, limit, factor)
    \/ ReceiveEvent
    \/ \E digits \in Statuses : Attempt(digits)

SpecRetry == InitRetry /\ [][NextRetry]_vars


\* a rule spec's retry_on and ignore stanzas and a result, from the bounded sets
InitClassify ==
    /\ ProducerInit
    /\ MatchOff
    /\ RuleOff
    /\ RetryOff
    /\ ExecOff
    /\ FactoryOff
    /\ cSpec \in [retry_on : RetryOnStanzas, ignore : IgnoreStanzas]
    /\ cPhase = "new"
    /\ cResult \in Results
    /\ cOut = [retry |-> FALSE, ignore |-> FALSE]

NextClassify ==
    \/ CompileChecks
    \/ Classify

SpecClassify == InitClassify /\ [][NextClassify]_vars


\* a rule configuration gets its exec stanzas, the Rule is built and asked for
\* the exec of its options
InitExec ==
    /\ ProducerInit
    /\ MatchOff
    /\ RuleOff
    /\ RetryOff
    /\ ClassifyOff
    /\ FactoryOff
    /\ eSpec = [cases |-> Undefined, exec |-> Undefined]
    /\ ePhase = "config"
    /\ eRule = [noop |-> Undefined, exec |-> <<>>]
    /\ eGot = [index |-> -1, exec |-> Undefined]

NextExec ==
    \/ \E exec \in Execs : SetExec(exec)
    \/ \E exec \in Execs : AddExecCase(exec)
    \/ BuildExecs
    \/ \E index \in 0..(MaxCases - 1) : GetExec(index)

SpecExec == InitExec /\ [][NextExec]_vars


\* a Kafka configuration from the bounded set, the factory built from it, its
\* getters and createConsumer
InitFactory ==
    /\ ProducerInit
    /\ MatchOff
    /\ RuleOff
    /\ RetryOff
    /\ ClassifyOff
    /\ ExecOff
    /\ kConf \in KafkaConfs
    /\ kPhase = "new"
    /\ kFactory = [consumerConf |-> Undefined, consumerTopicConf |-> Undefined]
    /\ kOut = [op |-> "none", value |-> Undefined]

NextFactory ==
    \/ NewFactory
    \/ ConsumeDC
    \/ ProduceDC
    \/ \E groupId \in GroupIds, clientId \in ClientIds : CreateConsumer(groupId, clientId)

SpecFactory == InitFactory /\ [][NextFactory]_vars

(***************************************************************************)
(* Claims about the GuaranteedProducer                                     *)
(***************************************************************************)
CallIds == 1..Len(calls)

\* the call passed both guards and handed its message to super.produce
Accepted(c) == calls[c].result # "notcalled"
Settled(c) == calls[c].st # "pending"

C1_Safety ==
    /\ \A c \in CallIds : Accepted(c) =>
          /\ calls[c].nres + calls[c].nrej <= 1
          /\ Settled(c) => calls[c].nres + calls[c].nrej = 1
          /\ calls[c].st = "resolved" => calls[c].result = "true" /\ calls[c].by = c
          /\ calls[c].st = "rejected" => calls[c].result \in {"error", "throw"}
    /\ (\A c \in CallIds : Accepted(c) => Settled(c)) => DOMAIN pending = {}

C1_Live == []<>(\A c \in CallIds : Accepted(c) => Settled(c))

C2_DistinctKeysNeverDuplicate ==
    (\A c, d \in CallIds : c # d => calls[c].key # calls[d].key)
        => \A c \in CallIds : calls[c].err # "duplicate"

IsProduceStep == Len(calls') = Len(calls) + 1
NewId == Len(calls) + 1

\* C3: a produce call whose topic:key already has a pending entry is rejected
\* with the duplicate-key error, hands nothing to the bus and leaves the pending
\* map (so the earlier call's entry) as it was; the earlier call is then resolved
\* by its own delivery report and the duplicate call is never resolved.
C3_DuplicateRejected ==
    /\ [][(/\ IsProduceStep
           /\ calls'[NewId].key # <<>>
           /\ calls'[NewId].topic \o <<":">> \o calls'[NewId].key \in DOMAIN pending)
          => /\ calls'[NewId].err = "duplicate"
             /\ calls'[NewId].result = "notcalled"
             /\ pending' = pending
             /\ bus' = bus
             /\ ticks' = Append(ticks, [op |-> "reject", call |-> NewId, rk |-> <<>>])]_vars
    /\ [](\A c \in CallIds :
            /\ calls[c].err = "duplicate" => calls[c].nres = 0
            /\ calls[c].st = "resolved" => calls[c].by = c)

\* the second call repeated the first one's topic and key while it was in flight:
\* it was rejected, and the first was resolved by its own report afterwards
C3_Witness ==
    /\ Len(calls) >= 2
    /\ calls[2].topic = calls[1].topic /\ calls[2].key = calls[1].key
    /\ calls[2].err = "duplicate" /\ calls[2].st = "rejected"
    /\ calls[1].st = "resolved" /\ calls[1].by = 1

\* C4: produce with an empty key is rejected, hands no message to the underlying
\* producer and leaves the pending map unchanged.
C4_EmptyKeyRejected ==
    /\ [][(IsProduceStep /\ calls'[NewId].key = <<>>)
          => /\ calls'[NewId].err = "nokey"
             /\ calls'[NewId].result = "notcalled"
             /\ pending' = pending
             /\ bus' = bus
             /\ ticks' = Append(ticks, [op |-> "reject", call |-> NewId, rk |-> <<>>])]_vars
    /\ [](\A c \in CallIds : calls[c].key = <<>> => calls[c].st # "resolved")

\* an empty-key call made while another call was pending has been rejected
C4_Witness ==
    /\ \E c \in CallIds : calls[c].key = <<>> /\ calls[c].st = "rejected" /\ calls[c].nrej = 1
    /\ DOMAIN pending # {}

\* C5 (as claimed): once disconnect has torn the producer down, the polling
\* schedule is stopped and every produce call that was pending has been settled.
C5_FlushedBeforeTeardown ==
    ~connected =>
        /\ ~pollInterval
        /\ \A c \in CallIds : calls[c].result = "true" => Settled(c)

(***************************************************************************)
(* Claims about the match compiler and Rule.test                           *)
(***************************************************************************)
\* the predicate returned a truthy value
Holds(v) == ~IsThrow(v) /\ Truthy(v)

\* the option the claim names: the first whose match holds and whose match_not
\* does not, counted from 0, or -1
ClaimedIndex(options, message) ==
    LET ok == {i \in 1..Len(options) :
                /\ Holds(OptionMatch(options[i], message))
                /\ ~Holds(OptionMatchNot(options[i], message))}
    IN  IF ok = {} THEN -1 ELSE MinOf(ok) - 1

\* C7 (as claimed): Rule.test(event) returns the smallest index whose match
\* predicate holds and whose match_not predicate does not, and -1 when no
\* option qualifies.
C7_TestReturnsFirstMatch ==
    rPhase = "tested" =>
        /\ ~rTest.threw
        /\ rTest.index = ClaimedIndex(rSpec.cases, rEvent)

\* C8 (as claimed): for every compiled match tree and every event, also one in
\* which a field on the way to a nested pattern is missing, the predicate
\* returns and never throws.
C8_PredicateNeverThrows ==
    mPhase \in {"tested", "bound"} => ~IsThrow(mPred)

\* some item of the array target is strictly equal to the pattern element p
SomeItemEquals(target, p) ==
    \E j \in 1..Len(target.kids) : target.kids[j].v.t = p.t /\ target.kids[j].v.s = p.s

\* C9 (as claimed): for an array pattern P and a target T the predicate is true
\* exactly when T is an array and every element of P is matched by at least one
\* element of T, whatever the element values (0, false and '' included).
C9_ArrayMatchesSomeItem ==
    (/\ mPhase \in {"tested", "bound"}
     /\ Len(mTree.kids) = 1
     /\ mTree.kids[1].k = KeyM
     /\ mTree.kids[1].v.t = "arr")
    => LET P == mTree.kids[1].v
           T == Lookup(mEvent, KeyM)
       IN  Holds(mPred) <=> (/\ T.t = "arr"
                             /\ \A i \in 1..Len(P.kids) : SomeItemEquals(T, P.kids[i].v))

\* a bindings object without holes: it was returned, and no entry is null
RECURSIVE WellFormed(_)
WellFormed(b) ==
    /\ ~IsThrow(b)
    /\ b.t # "null"
    /\ b.t = "obj" => \A i \in 1..Len(b.kids) : WellFormed(b.kids[i].v)

\* C10 (as claimed): predicate(E) is true iff binder(E) returns a well-formed
\* binding; when the predicate is false the binder neither throws nor returns a
\* populated or partially populated bindings object.
C10_BinderAgreesWithPredicate ==
    mPhase = "bound" =>
        /\ Holds(mPred) => WellFormed(mBind)
        /\ ~Holds(mPred) => ~IsThrow(mBind) /\ mBind.kids = <<>>

(***************************************************************************)
(* Claims about retry handling                                             *)
(***************************************************************************)
\* the retry_limit the rule was configured with, 2 when it was left out
ConfiguredLimit == IF xConf.retry_limit.set THEN xConf.retry_limit.n ELSE DEFAULT_RETRY_LIMIT

\* C6 (as claimed): when the target answers every attempt with a retryable
\* status, a rule with retry_limit L makes exactly L+1 attempts and at most L
\* retry envelopes, the first carrying retries_left = L and each next one one
\* less, and ends with exactly one error envelope.
C6_RetryLimitBoundsAttempts ==
    (/\ xPhase = "done"
     /\ \A i \in 1..Len(xResponses) : ShouldRetry(Response(xResponses[i])))
    => /\ Len(xResponses) = ConfiguredLimit + 1
       /\ Len(xEnvelopes) <= ConfiguredLimit
       /\ \A i \in 1..Len(xEnvelopes) : xEnvelopes[i] = ConfiguredLimit - (i - 1)
       /\ xErrors = 1

(***************************************************************************)
(* Claims about the retry_on / ignore classifiers                          *)
(***************************************************************************)
\* structural equality of two values, whatever the order of an object's keys
RECURSIVE StructEq(_, _)
StructEq(a, b) ==
    /\ a.t = b.t
    /\ a.s = b.s
    /\ Len(a.kids) = Len(b.kids)
    /\ IF a.t = "obj"
       THEN \A i \in 1..Len(a.kids) : \E j \in 1..Len(b.kids) :
                a.kids[i].k = b.kids[j].k /\ StructEq(a.kids[i].v, b.kids[j].v)
       ELSE \A i \in 1..Len(a.kids) : StructEq(a.kids[i].v, b.kids[i].v)

\* the option of a field is satisfied by the result, as the claim words it
OptionSatisfied(field, option, res) ==
    IF field = KeyStatus
    THEN LET opt == ToStr(option)
             status == Lookup(res, KeyStatus)
         IN  IF \A i \in 1..Len(opt) : IsDigit(opt[i])
             THEN status.t = "num" /\ BaseValue(status.s, 10) = BaseValue(opt, 10)
             ELSE /\ Len(ToStr(status)) = Len(opt)
                  /\ \A i \in 1..Len(opt) :
                        IF opt[i] = "x" THEN IsDigit(ToStr(status)[i])
                        ELSE ToStr(status)[i] = opt[i]
    ELSE StructEq(option, Lookup(res, field))

OptionsOf(v) == IF v.t = "arr" THEN [i \in 1..Len(v.kids) |-> v.kids[i].v] ELSE <<v>>

\* field AND, array OR
StanzaSatisfied(stanza, res) ==
    \A i \in 1..Len(stanza.kids) :
        \E j \in 1..Len(OptionsOf(stanza.kids[i].v)) :
            OptionSatisfied(stanza.kids[i].k, OptionsOf(stanza.kids[i].v)[j], res)

\* some status option is neither digits nor digits and x
BadStatusOption(stanza) ==
    \E i \in 1..Len(stanza.kids) :
        /\ stanza.kids[i].k = KeyStatus
        /\ \E j \in 1..Len(OptionsOf(stanza.kids[i].v)) :
             LET opt == ToStr(OptionsOf(stanza.kids[i].v)[j]) IN
             opt = <<>> \/ \E c \in 1..Len(opt) : ~IsDigit(opt[c]) /\ opt[c] # "x"

\* C11 (as claimed): for a stanza S and a result R the compiled classifier is
\* true exactly when every field of S is satisfied by R, an array field by at
\* least one of its options, a numeric status by exactly that status, an x
\* pattern by a digit in each x position, any other field by structural
\* equality; compiling throws exactly for a status option that is neither
\* digits nor digits and x.
C11_ClassifierFollowsStanza ==
    (cPhase \in {"compiled", "invalid", "classified"} /\ cSpec.retry_on # Undefined
     /\ cSpec.ignore = Undefined)
    => /\ cPhase = "invalid" <=> BadStatusOption(cSpec.retry_on)
       /\ cPhase = "classified" => (cOut.retry <=> StanzaSatisfied(cSpec.retry_on, cResult))

StatusIn(res, lo, hi) ==
    /\ Lookup(res, KeyStatus).t = "num"
    /\ BaseValue(Lookup(res, KeyStatus).s, 10) \in lo..hi

\* C12: for a rule built without retry_on and ignore, shouldRetry(result) is
\* true exactly for the statuses 500..509 and shouldIgnoreError(result) exactly
\* for 412, so a 404 is neither and no result is both.
C12_DefaultClassifiers ==
    (cSpec.retry_on = Undefined /\ cSpec.ignore = Undefined /\ cPhase # "new")
    => /\ cPhase # "invalid"
       /\ cPhase = "classified" =>
            /\ cOut.retry <=> StatusIn(cResult, 500, 509)
            /\ cOut.ignore <=> StatusIn(cResult, 412, 412)
            /\ ~(cOut.retry /\ cOut.ignore)

\* a rule built with the defaults has classified a 509 as retryable
C12_Witness ==
    /\ cSpec.retry_on = Undefined /\ cSpec.ignore = Undefined
    /\ cPhase = "classified"
    /\ StatusIn(cResult, 509, 509)
    /\ cOut.retry /\ ~cOut.ignore

\* the value the claim expects for a retry field: the one given, else the default
KeptOrDefault(field, default) == IF field.set THEN field.n ELSE default

\* C13 (as claimed): the Rule constructor rejects a spec without topic and
\* otherwise keeps every retry_delay, retry_limit and retry_factor the spec
\* gives, 0 included, and puts 60000, 2 and 6 only where the spec gives none.
C13_ConstructorKeepsRetryValues ==
    xPhase \notin {"off", "config"} =>
        /\ xPhase = "invalid" <=> xConf.topic = Undefined
        /\ xPhase # "invalid" =>
            /\ xRule.retry_delay = KeptOrDefault(xConf.retry_delay, 60000)
            /\ xRule.retry_limit = KeptOrDefault(xConf.retry_limit, 2)
            /\ xRule.retry_factor = KeptOrDefault(xConf.retry_factor, 6)

(***************************************************************************)
(* Claims about exec                                                       *)
(***************************************************************************)
\* the exec stanza of option i as the configuration declares it
DeclaredExec(i) ==
    IF eSpec.cases = Undefined THEN eSpec.exec
    ELSE IF \E f \in 1..Len(eSpec.cases.kids[i].v.kids) :
                eSpec.cases.kids[i].v.kids[f].k = <<"e", "x", "e", "c">>
         THEN eSpec.cases.kids[i].v.kids[1].v
         ELSE Undefined
NumOptions == IF eSpec.cases = Undefined THEN 1 ELSE Len(eSpec.cases.kids)
DeclaredEntries(i) ==
    IF DeclaredExec(i).t = "arr"
    THEN [j \in 1..Len(DeclaredExec(i).kids) |-> DeclaredExec(i).kids[j].v]
    ELSE <<DeclaredExec(i)>>

\* C14: once a Rule is constructed, noop is true exactly when some option has
\* no exec, and for an option that has exec getExec(i) returns one template per
\* declared exec entry, in declaration order, a single non-array exec counting
\* as one entry.
C14_NoopAndExecTemplates ==
    ePhase \in {"built", "got"} =>
        /\ eRule.noop = True <=> \E i \in 1..NumOptions : DeclaredExec(i) = Undefined
        /\ (ePhase = "got" /\ DeclaredExec(eGot.index + 1) # Undefined) =>
            LET entries == DeclaredEntries(eGot.index + 1) IN
            /\ eGot.exec.t = "arr"
            /\ Len(eGot.exec.kids) = Len(entries)
            /\ \A j \in 1..Len(entries) :
                 Lookup(eGot.exec.kids[j].v, KeyUri) = Lookup(entries[j], KeyUri)

\* a rule of two options, the first without exec and the second with two
\* entries, is a no-op and getExec(1) has returned the two templates
C14_Witness ==
    /\ ePhase = "got"
    /\ NumOptions = 2
    /\ DeclaredExec(1) = Undefined
    /\ DeclaredExec(2) = Arr(<<ReqB, ReqA>>)
    /\ eRule.noop = True
    /\ eGot.index = 1
    /\ Len(eGot.exec.kids) = 2

(***************************************************************************)
(* Claims about regex patterns in a match tree                             *)
(***************************************************************************)
NamedGroupsOf(s) ==
    {i \in 1..(Len(s) - 2) : s[i] = "(" /\ s[i + 1] = "?" /\ s[i + 2] = "<"}
UnnamedGroupsOf(s) ==
    {i \in 1..(Len(s) - 1) : s[i] = "(" /\ s[i + 1] # "?"}
IsRegexLeaf(obj) ==
    /\ obj.t = "str"
    /\ Len(obj.s) >= 3
    /\ obj.s[1] = "/"
    /\ obj.s[Len(obj.s)] = "/"

\* some regex pattern of the tree has a named and an unnamed capture group
RECURSIVE HasMixedRegex(_)
HasMixedRegex(obj) ==
    \/ IsRegexLeaf(obj) /\ NamedGroupsOf(obj.s) # {} /\ UnnamedGroupsOf(obj.s) # {}
    \/ \E i \in 1..Len(obj.kids) : HasMixedRegex(obj.kids[i].v)

\* the name of the k-th named group of s and the text its parentheses enclose
GroupName(s, k) ==
    LET i == CHOOSE i \in NamedGroupsOf(s) : Cardinality({j \in NamedGroupsOf(s) : j <= i}) = k
        e == MinOf({j \in (i + 3)..Len(s) : s[j] = ">"})
    IN  SubSeq(s, i + 3, e - 1)
GroupText(s, k) ==
    LET i == CHOOSE i \in NamedGroupsOf(s) : Cardinality({j \in NamedGroupsOf(s) : j <= i}) = k
        b == MinOf({j \in (i + 3)..Len(s) : s[j] = ">"})
        e == MinOf({j \in (b + 1)..Len(s) : s[j] = ")"})
    IN  SubSeq(s, b + 1, e - 1)

OwnThenShared(own, shared) ==
    IF Lookup(kConf, own) # Undefined THEN Lookup(kConf, own)
    ELSE IF Lookup(kConf, shared) # Undefined THEN Lookup(kConf, shared)
    ELSE DefaultDC

\* C16 (as claimed): consumeDC is consume_dc whenever that is configured and
\* produceDC is produce_dc whenever that is configured; each falls back to
\* dc_name only when its own setting is missing, and to 'datacenter1' when
\* dc_name is missing too.
C16_OwnDcBeforeDcName ==
    /\ kOut.op = "consumeDC" => kOut.value = OwnThenShared(KeyConsumeDc, KeyDcName)
    /\ kOut.op = "produceDC" => kOut.value = OwnThenShared(KeyProduceDc, KeyDcName)

\* C17 (as claimed): every consumer configuration the factory builds has
\* enable.auto.commit off, whatever the consumer stanza holds.
C17_AutoCommitDisabled ==
    /\ kPhase = "ready" => Lookup(kFactory.consumerConf, KeyAutoCommit) \in {StrFalse, False}
    /\ kOut.op = "createConsumer" => Lookup(kOut.value, KeyAutoCommit) \in {StrFalse, False}

(***************************************************************************)
(* Claims about the delivery-report handler                                *)
(***************************************************************************)
\* poll() has emitted every report the library held
IsPollStep == ready # <<>> /\ ready' = <<>>
KeyOfReport(i) == ready[i].topic \o <<":">> \o ready[i].key
\* report i finds no entry: none was pending, or an earlier report of the same
\* poll has taken it
FindsNoEntry(i) ==
    \/ KeyOfReport(i) \notin DOMAIN pending
    \/ \E j \in 1..(i - 1) : KeyOfReport(j) = KeyOfReport(i)

\* C18: a delivery report whose topic:key has no entry in the pending map
\* invokes no resolver and leaves the map as it is, and is logged; a report that
\* finds its entry invokes that resolver once and removes that entry and no
\* other.
C18_ReportTouchesOnlyItsEntry ==
    [][IsPollStep =>
        /\ DOMAIN pending' = DOMAIN pending \ {KeyOfReport(i) : i \in 1..Len(ready)}
        /\ \A k \in DOMAIN pending' : pending'[k] = pending[k]
        /\ logged' = logged + Cardinality({i \in 1..Len(ready) : FindsNoEntry(i)})
        /\ \A c \in CallIds :
            IF \E i \in 1..Len(ready) :
                    KeyOfReport(i) \in DOMAIN pending /\ pending[KeyOfReport(i)] = c
            THEN /\ calls'[c].nres = calls[c].nres + 1
                 /\ calls'[c].nrej = calls[c].nrej
            ELSE calls'[c] = calls[c]]_vars

\* a report without entry has been logged, a call has been resolved by its
\* report, and the entry of another call is still in the map
C18_Witness ==
    /\ logged = 1
    /\ \E c \in CallIds : calls[c].st = "resolved" /\ calls[c].by = c
    /\ \E k \in DOMAIN pending : calls[pending[k]].st = "pending"

====
